---- MODULE Spec2Model ----
(***************************************************************************)
(* bugx: the tunnel process supervisor and the connection registry.        *)
(*                                                                         *)
(* The registry is the file ~/.bugx/connections.json.  The commands        *)
(* connect, connect list and disconnect run one after the other in a CLI   *)
(* process; every background port-forward is an OS process of its own      *)
(* (the daemon) that reads and rewrites the same file.  Every read of the  *)
(* file and every write of it is one step, so that the steps of the        *)
(* daemons interleave with the steps of the command that is running.       *)
(***************************************************************************)
EXTENDS Integers, Sequences, FiniteSets, TLC

\* Number of daemon processes the OS lets the commands start; afterwards
\* cmd.Start() fails.
MaxPid == 2

Pids == 1..MaxPid

Clients == {"cli"}

\* The arguments of connect after service and pod discovery.
ParamSet ==
    { [ServiceName |-> "db", Namespace |-> "prod", LocalPort |-> "3307",
       RemotePort |-> 3306, PodName |-> "db-0", Kubeconfig |-> "kc-prod"],
      [ServiceName |-> "web", Namespace |-> "default", LocalPort |-> "8081",
       RemotePort |-> 8080, PodName |-> "web-0", Kubeconfig |-> "kc-dev"] }

NoArgs ==
    [ServiceName |-> "", Namespace |-> "", LocalPort |-> "",
     RemotePort |-> 0, PodName |-> "", Kubeconfig |-> ""]

\* type ConnectionInfo struct
ConnectionInfo(pid, p, status) ==
    [PID |-> pid, ServiceName |-> p.ServiceName, Namespace |-> p.Namespace,
     LocalPort |-> p.LocalPort, RemotePort |-> p.RemotePort,
     PodName |-> p.PodName, Kubeconfig |-> p.Kubeconfig, Status |-> status]

\* The nil *ConnectionInfo.
NoConn == ConnectionInfo(0, NoArgs, "")

VARIABLES
    file,     \* connections.json: [st, conns]
    wk,       \* the daemon processes, by PID
    nextPid,  \* the PID the next cmd.Start() gets
    cli,      \* the CLI process: the command it runs and where it is in it
    obs,      \* what the running command has done so far (history)
    last,     \* the command or the daemon that has just returned and its
              \* result, for as long as no process has taken a step since
              \* (history)
    io        \* "faulty": reads and writes of the file can fail;
              \* "sound": they never do.  Fixed for the whole behaviour.

vars == <<file, wk, nextPid, cli, obs, last, io>>

----------------------------------------------------------------------------
(* The registry file.                                                      *)

\* The object json.Marshal writes for one ConnectionInfo, less its
\* kubeconfig key.
MarshalConnectionNoKubeconfig(conn) ==
    [pid |-> conn.PID, service_name |-> conn.ServiceName,
     namespace |-> conn.Namespace, local_port |-> conn.LocalPort,
     remote_port |-> conn.RemotePort, pod_name |-> conn.PodName,
     status |-> conn.Status]

\* The object json.Marshal writes for one ConnectionInfo: its keys are the
\* json tags of the struct, none of them omitempty.
MarshalConnection(conn) ==
    [pid |-> conn.PID, service_name |-> conn.ServiceName,
     namespace |-> conn.Namespace, local_port |-> conn.LocalPort,
     remote_port |-> conn.RemotePort, pod_name |-> conn.PodName,
     kubeconfig |-> conn.Kubeconfig, status |-> conn.Status]

\* json.MarshalIndent(connections): an array of objects.  A nil slice (what
\* removeConnection builds when nothing is left) is written as null, an
\* empty one as []; both are the array without elements here.
MarshalIndent(conns) ==
    [i \in 1..Len(conns) |-> MarshalConnection(conns[i])]

\* What json.Unmarshal makes of one object: a key that is absent leaves the
\* zero value in its field.
UnmarshalConnection(o) ==
    [PID |-> IF "pid" \in DOMAIN o THEN o.pid ELSE 0,
     ServiceName |-> IF "service_name" \in DOMAIN o THEN o.service_name ELSE "",
     Namespace |-> IF "namespace" \in DOMAIN o THEN o.namespace ELSE "",
     LocalPort |-> IF "local_port" \in DOMAIN o THEN o.local_port ELSE "",
     RemotePort |-> IF "remote_port" \in DOMAIN o THEN o.remote_port ELSE 0,
     PodName |-> IF "pod_name" \in DOMAIN o THEN o.pod_name ELSE "",
     Kubeconfig |-> IF "kubeconfig" \in DOMAIN o THEN o.kubeconfig ELSE "",
     Status |-> IF "status" \in DOMAIN o THEN o.status ELSE ""]

\* json.Unmarshal(data, &connections).
Unmarshal(data) ==
    [i \in 1..Len(data) |-> UnmarshalConnection(data[i])]

\* file.st: "missing" (no file yet), "json" (a complete array written by
\* saveConnections), "empty" (zero bytes: truncated by a write that wrote
\* nothing), "partial" (a proper prefix of the JSON text).  file.conns is
\* what json.Unmarshal makes of the bytes of a "json" file.
FileOf(conns) ==
    CHOOSE f \in { [st |-> "json", conns |-> Unmarshal(data)] :
                     data \in {MarshalIndent(conns)} } : TRUE

\* loadConnections: the results it can give on file f.  On a faulty disk a
\* read can always fail (MkdirAll or ReadFile error); a partial file fails
\* to parse; a missing or empty file loads as no connections.
loadConnections(f) ==
    {[err |-> TRUE, conns |-> <<>>] : x \in {io} \cap {"faulty"}}
    \cup (IF f.st = "partial" THEN {[err |-> TRUE, conns |-> <<>>]}
          ELSE {[err |-> FALSE, conns |-> IF f.st = "json" THEN f.conns ELSE <<>>]})

\* saveConnections: the results it can give.  os.WriteFile opens the file
\* with O_TRUNC and then writes: when it fails the file is untouched (the
\* directory or the open failed), empty, or holds a prefix of the data.
saveConnections(f, conns) ==
    {[err |-> FALSE, file |-> FileOf(data)] : data \in {conns}}
    \cup { [err |-> TRUE, file |-> g] :
             g \in IF io = "faulty"
                   THEN {f, [st |-> "empty", conns |-> <<>>],
                         [st |-> "partial", conns |-> <<>>]}
                   ELSE {} }

Matches(conn, serviceName, namespace) ==
    conn.ServiceName = serviceName /\ conn.Namespace = namespace

\* Index of the first connection with that name and namespace, 0 if none.
FirstMatch(conns, serviceName, namespace) ==
    IF \E i \in 1..Len(conns) : Matches(conns[i], serviceName, namespace)
    THEN CHOOSE i \in 1..Len(conns) :
            /\ Matches(conns[i], serviceName, namespace)
            /\ \A j \in 1..(i-1) : ~Matches(conns[j], serviceName, namespace)
    ELSE 0

\* findConnection that returns the first active match, and the first match
\* when none is active.
findActiveConnection(conns, serviceName, namespace) ==
    LET act == {i \in 1..Len(conns) :
                  Matches(conns[i], serviceName, namespace) /\ conns[i].Status = "active"}
        i == FirstMatch(conns, serviceName, namespace)
    IN  IF act # {} THEN conns[CHOOSE a \in act : \A b \in act : a <= b]
        ELSE IF i = 0 THEN NoConn ELSE conns[i]

\* findConnection, the loop over the loaded connections.
findConnection(conns, serviceName, namespace) ==
    LET i == FirstMatch(conns, serviceName, namespace)
    IN  IF i = 0 THEN NoConn ELSE conns[i]

\* addConnection, between its load and its save.
addConnection(conns, conn) == Append(conns, conn)

RECURSIVE Filter(_, _, _)
Filter(conns, serviceName, namespace) ==
    IF conns = <<>> THEN <<>>
    ELSE IF Matches(Head(conns), serviceName, namespace)
         THEN Filter(Tail(conns), serviceName, namespace)
         ELSE <<Head(conns)>> \o Filter(Tail(conns), serviceName, namespace)

\* removeConnection that stops at the first match.
removeFirstConnection(conns, serviceName, namespace) ==
    LET i == FirstMatch(conns, serviceName, namespace)
    IN  IF i = 0 THEN conns
        ELSE SubSeq(conns, 1, i - 1) \o SubSeq(conns, i + 1, Len(conns))

\* removeConnection, between its load and its save.
removeConnection(conns, serviceName, namespace) ==
    Filter(conns, serviceName, namespace)

\* updateConnectionStatus that sets the status of every match.
updateEveryConnectionStatus(conns, serviceName, namespace, status) ==
    [i \in 1..Len(conns) |->
        IF Matches(conns[i], serviceName, namespace)
        THEN [conns[i] EXCEPT !.Status = status]
        ELSE conns[i]]

\* updateConnectionStatus, between its load and its save (a match exists).
updateConnectionStatus(conns, serviceName, namespace, status) ==
    LET i == FirstMatch(conns, serviceName, namespace)
    IN  [conns EXCEPT ![i].Status = status]

----------------------------------------------------------------------------
(* Processes and signals.                                                  *)

\* stalled: the daemon waits in its second select after the port-forward has
\* returned nil.
Alive == {"starting", "running", "stalled", "updating", "removing"}

\* process.Signal(syscall.Signal(0)): nil when the signal reaches the
\* process, EPERM when a process with this PID exists that the caller may
\* not signal, ESRCH when no process has the PID.
Signal0(pid) ==
    IF pid \in Pids /\ wk[pid].st \in Alive THEN "nil"
    ELSE IF pid \in Pids /\ wk[pid].st = "foreign" THEN "EPERM"
    ELSE "ESRCH"

\* isProcessRunning: signal 0 reaches the process.
isProcessRunning(pid) == Signal0(pid) = "nil"

\* A process that has exited: nothing of it is left but its PID.
ExitedWorker ==
    [st |-> "exited", name |-> "", ns |-> "", sig |-> FALSE, rmw |-> <<>>]

\* SIGKILL.
Kill(W, pid) ==
    IF pid \in Pids /\ W[pid].st \in Alive
    THEN [W EXCEPT ![pid] = ExitedWorker]
    ELSE W

\* SIGTERM or SIGINT.  Before signal.Notify (the daemon is still starting)
\* the Go runtime's default applies and the process exits; afterwards the
\* signal is queued on sigChan, which nothing reads any more once the
\* daemon has left its select.
Signal(W, pid) ==
    IF pid \in Pids /\ W[pid].st = "starting"
    THEN [W EXCEPT ![pid] = ExitedWorker]
    ELSE IF pid \in Pids /\ W[pid].st \in {"running", "stalled"}
         THEN [W EXCEPT ![pid].sig = TRUE]
         ELSE W

NoWorker ==
    [st |-> "none", name |-> "", ns |-> "", sig |-> FALSE, rmw |-> <<>>]

IdleCli ==
    [pc |-> "idle", cmd |-> "none", args |-> NoArgs, pid |-> 0,
     conn |-> NoConn, conns |-> <<>>, rmw |-> <<>>, idx |-> 0]

\* sent: the PIDs the command has signalled; probed: the PIDs it has
\* found running; dead: the PIDs it has found not running; wrote: it has
\* called saveConnections; saved: the saveConnections of a daemon returned
\* nil; again and fresh: see StartObs; path: the branch disconnect took at
\* its liveness probe.
NoObs ==
    [sent |-> {}, probed |-> {}, dead |-> {}, wrote |-> FALSE, saved |-> FALSE,
     again |-> FALSE, fresh |-> FALSE, path |-> "none"]

NoLast == [cmd |-> "none", args |-> NoArgs, res |-> "none", pid |-> 0, obs |-> NoObs]

Init ==
    /\ file = [st |-> "missing", conns |-> <<>>]
    /\ wk = [p \in Pids |-> NoWorker]
    /\ nextPid = 1
    /\ cli = [c \in Clients |-> IdleCli]
    /\ obs = [c \in Clients |-> NoObs]
    /\ last = NoLast
    /\ io \in {"sound", "faulty"}

----------------------------------------------------------------------------
(* The CLI process.  A command starts when the process is idle and ends by *)
(* returning its result.                                                   *)

HasRecord(f, serviceName, namespace) ==
    /\ f.st = "json"
    /\ \E i \in 1..Len(f.conns) : Matches(f.conns[i], serviceName, namespace)

\* The results with which a command returns nil.
Success == {"Ok", "AlreadyStopped"}

\* The command that starts now directly follows a successful cmd on the
\* same name and namespace: no daemon took a step in between.
Follows(cmd, p) ==
    /\ last.cmd = cmd
    /\ last.res \in Success
    /\ Matches(last.args, p.ServiceName, p.Namespace)

\* What is true when the command starts: it follows a successful one
\* (again); the file holds no record of its name and namespace (fresh).
StartObs(cmd, p) ==
    [NoObs EXCEPT !.again = Follows(cmd, p),
                  !.fresh = ~HasRecord(file, p.ServiceName, p.Namespace)]

\* The first step of command cmd with arguments p, which leaves it at pc.
Begin(c, cmd, p, pc, conn) ==
    /\ cli' = [cli EXCEPT ![c] =
                 [IdleCli EXCEPT !.pc = pc, !.cmd = cmd, !.args = p, !.conn = conn]]
    /\ obs' = [obs EXCEPT ![c] = StartObs(cmd, p)]
    /\ last' = NoLast

\* The command returns res; pid is the process it was about, if any, and
\* o what it has done.
Return(c, cmd, p, res, pid, o) ==
    /\ cli' = [cli EXCEPT ![c] = IdleCli]
    /\ obs' = [obs EXCEPT ![c] = NoObs]
    /\ last' = [cmd |-> cmd, args |-> p, res |-> res, pid |-> pid, obs |-> o]

(* connect: NewConnectCmd, createBackgroundPortForward *)

\* connect.go:125-137: "Check if connection already exists".  The error of
\* findConnection is dropped: a failed load counts as no connection.  Then
\* the --background flag decides between the daemon and the foreground.
ConnectFind(c, p) ==
    /\ cli[c].pc = "idle"
    /\ \E r \in loadConnections(file) :
         LET existing == IF r.err THEN NoConn
                         ELSE findConnection(r.conns, p.ServiceName, p.Namespace)
         IN  IF existing # NoConn /\ existing.Status = "active"
             THEN Return(c, "connect", p, "AlreadyConnected", 0, StartObs("connect", p))
             ELSE \/ Begin(c, "connect", p, "spawn", NoConn)
                  \/ Begin(c, "foreground", p, "fgstart", NoConn)
    /\ UNCHANGED <<file, wk, nextPid>>
    /\ UNCHANGED io

\* connect.go:286-294: cmd.Start() fails, or the daemon process exists and
\* is starting.
ConnectSpawn(c) ==
    /\ cli[c].pc = "spawn"
    /\ \/ /\ Return(c, "connect", cli[c].args, "SpawnFailed", 0, obs[c])
          /\ UNCHANGED <<wk, nextPid>>
       \/ /\ nextPid <= MaxPid
          /\ wk' = [wk EXCEPT ![nextPid] =
                      [NoWorker EXCEPT !.st = "starting",
                                       !.name = cli[c].args.ServiceName,
                                       !.ns = cli[c].args.Namespace]]
          /\ nextPid' = nextPid + 1
          /\ cli' = [cli EXCEPT ![c].pc = "probe", ![c].pid = nextPid]
          /\ UNCHANGED <<obs, last>>
    /\ UNCHANGED file
    /\ UNCHANGED io

\* ConnectProbe with the record written before the liveness probe decides.
ConnectProbeAfterWrite(c) ==
    /\ cli[c].pc = "probe"
    /\ IF isProcessRunning(cli[c].pid)
       THEN /\ cli' = [cli EXCEPT ![c].pc = "add"]
            /\ obs' = [obs EXCEPT ![c].probed = @ \cup {cli[c].pid}]
            /\ UNCHANGED <<last, file>>
       ELSE /\ file' = FileOf(Append(IF file.st = "json" THEN file.conns ELSE <<>>,
                                     ConnectionInfo(cli[c].pid, cli[c].args, "active")))
            /\ Return(c, "connect", cli[c].args, "DaemonStartFailed", cli[c].pid, obs[c])
    /\ UNCHANGED <<wk, nextPid>>
    /\ UNCHANGED io

\* connect.go:296-305: after the two sleeps, isProcessRunning(pid).
ConnectProbe(c) ==
    /\ cli[c].pc = "probe"
    /\ IF isProcessRunning(cli[c].pid)
       THEN /\ cli' = [cli EXCEPT ![c].pc = "add"]
            /\ obs' = [obs EXCEPT ![c].probed = @ \cup {cli[c].pid}]
            /\ UNCHANGED last
       ELSE Return(c, "connect", cli[c].args, "DaemonStartFailed", cli[c].pid, obs[c])
    /\ UNCHANGED <<file, wk, nextPid>>
    /\ UNCHANGED io

\* connect.go:319 with connection.go:91-94: addConnection loads; when the
\* load fails, connect.go:320-324 kills the daemon and returns the error.
ConnectAddLoad(c) ==
    /\ cli[c].pc = "add"
    /\ \E r \in loadConnections(file) :
         IF r.err
         THEN /\ wk' = Kill(wk, cli[c].pid)
              /\ Return(c, "connect", cli[c].args, "RegistryWriteFailed", cli[c].pid,
                        [obs[c] EXCEPT !.sent = @ \cup {cli[c].pid}])
         ELSE /\ cli' = [cli EXCEPT ![c].pc = "addsave", ![c].rmw = r.conns]
              /\ UNCHANGED <<wk, obs, last>>
    /\ UNCHANGED <<file, nextPid>>
    /\ UNCHANGED io

\* ConnectAddSave without the kill of the daemon when the save fails.
ConnectAddSaveNoKill(c) ==
    /\ cli[c].pc = "addsave"
    /\ LET conn == ConnectionInfo(cli[c].pid, cli[c].args, "active")
       IN  \E s \in saveConnections(file, addConnection(cli[c].rmw, conn)) :
             /\ file' = s.file
             /\ Return(c, "connect", cli[c].args,
                       IF s.err THEN "RegistryWriteFailed" ELSE "Ok", cli[c].pid,
                       [obs[c] EXCEPT !.wrote = TRUE])
    /\ UNCHANGED <<wk, nextPid>>
    /\ UNCHANGED io

\* ConnectAddSave that looks for an active record of the key in the file
\* once more before it saves, and refuses when there is one.
ConnectAddSaveChecked(c) ==
    /\ cli[c].pc = "addsave"
    /\ LET conn == ConnectionInfo(cli[c].pid, cli[c].args, "active")
           existing == findConnection(file.conns, cli[c].args.ServiceName,
                                      cli[c].args.Namespace)
       IN  IF existing # NoConn /\ existing.Status = "active"
           THEN /\ wk' = Kill(wk, cli[c].pid)
                /\ Return(c, "connect", cli[c].args, "AlreadyConnected", cli[c].pid,
                          [obs[c] EXCEPT !.sent = @ \cup {cli[c].pid}])
                /\ UNCHANGED file
           ELSE \E s \in saveConnections(file, addConnection(cli[c].rmw, conn)) :
                  /\ file' = s.file
                  /\ IF s.err
                     THEN /\ wk' = Kill(wk, cli[c].pid)
                          /\ Return(c, "connect", cli[c].args, "RegistryWriteFailed",
                                    cli[c].pid,
                                    [obs[c] EXCEPT !.sent = @ \cup {cli[c].pid},
                                                   !.wrote = TRUE])
                     ELSE /\ Return(c, "connect", cli[c].args, "Ok", cli[c].pid,
                                    [obs[c] EXCEPT !.wrote = TRUE])
                          /\ UNCHANGED wk
    /\ UNCHANGED nextPid
    /\ UNCHANGED io

\* connect.go:308-325 with connection.go:96-97: the append and the save.
ConnectAddSave(c) ==
    /\ cli[c].pc = "addsave"
    /\ LET conn == ConnectionInfo(cli[c].pid, cli[c].args, "active")
       IN  \E s \in saveConnections(file, addConnection(cli[c].rmw, conn)) :
             /\ file' = s.file
             /\ IF s.err
                THEN /\ wk' = Kill(wk, cli[c].pid)
                     /\ Return(c, "connect", cli[c].args, "RegistryWriteFailed",
                               cli[c].pid,
                               [obs[c] EXCEPT !.sent = @ \cup {cli[c].pid},
                                              !.wrote = TRUE])
                ELSE /\ Return(c, "connect", cli[c].args, "Ok", cli[c].pid,
                               [obs[c] EXCEPT !.wrote = TRUE])
                     /\ UNCHANGED wk
    /\ UNCHANGED nextPid
    /\ UNCHANGED io

Connect(c) ==
    \/ \E p \in ParamSet : ConnectFind(c, p)
    \/ ConnectSpawn(c)
    \/ ConnectProbe(c)
    \/ ConnectAddLoad(c)
    \/ ConnectAddSave(c)

(* connect --background=false: createForegroundPortForward.  The CLI       *)
(* process itself runs the port-forward and stays attached to the terminal.*)

\* connect.go:218-229 and :236-238: readyChan is closed; the process
\* installs its signal handler and waits for a signal.
ForegroundReady(c) ==
    /\ cli[c].pc = "fgstart"
    /\ cli' = [cli EXCEPT ![c].pc = "fgrun"]
    /\ UNCHANGED <<file, wk, nextPid, obs, last>>
    /\ UNCHANGED io

\* connect.go:208-211 and :230-233: the port-forward cannot be created, or
\* ForwardPorts returns an error before it is ready.
ForegroundStartError(c) ==
    /\ cli[c].pc = "fgstart"
    /\ Return(c, "foreground", cli[c].args, "ForwardFailed", 0, obs[c])
    /\ UNCHANGED <<file, wk, nextPid>>
    /\ UNCHANGED io

\* connect.go:214-216: ForwardPorts returns an error while the process
\* waits at :238; the error is put on errChan, which nothing receives from
\* until a signal has arrived.
ForegroundTunnelError(c) ==
    /\ cli[c].pc = "fgrun"
    /\ cli' = [cli EXCEPT ![c].pc = "fgerror"]
    /\ UNCHANGED <<file, wk, nextPid, obs, last>>
    /\ UNCHANGED io

\* connect.go:238-244: SIGINT or SIGTERM arrives; stopChan is closed, the
\* result of ForwardPorts is received and the command returns nil.  Before
\* signal.Notify (:237) the signal ends the process.
ForegroundSignal(c) ==
    /\ cli[c].pc \in {"fgstart", "fgrun", "fgerror"}
    /\ Return(c, "foreground", cli[c].args,
              IF cli[c].pc = "fgstart" THEN "Killed" ELSE "Stopped", 0, obs[c])
    /\ UNCHANGED <<file, wk, nextPid>>
    /\ UNCHANGED io

Foreground(c) ==
    \/ ForegroundReady(c)
    \/ ForegroundStartError(c)
    \/ ForegroundTunnelError(c)
    \/ ForegroundSignal(c)

(* disconnect: NewDisconnectCmd *)

\* disconnect.go:27-31: every error of findConnection, a failed load as
\* well as no match, is reported as "connection not found".
DisconnectFind(c, p) ==
    /\ cli[c].pc = "idle"
    /\ \E r \in loadConnections(file) :
         LET conn == IF r.err THEN NoConn
                     ELSE findConnection(r.conns, p.ServiceName, p.Namespace)
         IN  IF conn = NoConn
             THEN Return(c, "disconnect", p, "NotFound", 0, StartObs("disconnect", p))
             ELSE Begin(c, "disconnect", p, "dprobe", conn)
    /\ UNCHANGED <<file, wk, nextPid>>
    /\ UNCHANGED io

\* disconnect.go:33-34: isProcessRunning(conn.PID).
DisconnectProbe(c) ==
    /\ cli[c].pc = "dprobe"
    /\ IF isProcessRunning(cli[c].conn.PID)
       THEN /\ cli' = [cli EXCEPT ![c].pc = "dsignal"]
            /\ obs' = [obs EXCEPT ![c].path = "live",
                                  ![c].probed = @ \cup {cli[c].conn.PID}]
       ELSE /\ cli' = [cli EXCEPT ![c].pc = "dremove"]
            /\ obs' = [obs EXCEPT ![c].path = "dead"]
    /\ UNCHANGED <<file, wk, nextPid, last>>
    /\ UNCHANGED io

\* DisconnectSignal that sends SIGKILL after every SIGTERM.
DisconnectSignalThenKill(c) ==
    /\ cli[c].pc = "dsignal"
    /\ IF isProcessRunning(cli[c].conn.PID)
       THEN /\ wk' = Kill(Signal(wk, cli[c].conn.PID), cli[c].conn.PID)
            /\ cli' = [cli EXCEPT ![c].pc = "dremove"]
            /\ obs' = [obs EXCEPT ![c].sent = @ \cup {cli[c].conn.PID}]
            /\ UNCHANGED last
       ELSE /\ Return(c, "disconnect", cli[c].args, "KillFailed", cli[c].conn.PID,
                      obs[c])
            /\ UNCHANGED wk
    /\ UNCHANGED <<file, nextPid>>
    /\ UNCHANGED io

\* disconnect.go:41-52: SIGTERM; when sending it fails (the process is
\* gone), SIGKILL, which then fails as well.
DisconnectSignal(c) ==
    /\ cli[c].pc = "dsignal"
    /\ IF isProcessRunning(cli[c].conn.PID)
       THEN /\ wk' = Signal(wk, cli[c].conn.PID)
            /\ cli' = [cli EXCEPT ![c].pc = "dremove"]
            /\ obs' = [obs EXCEPT ![c].sent = @ \cup {cli[c].conn.PID}]
            /\ UNCHANGED last
       ELSE /\ Return(c, "disconnect", cli[c].args, "KillFailed", cli[c].conn.PID,
                      obs[c])
            /\ UNCHANGED wk
    /\ UNCHANGED <<file, nextPid>>
    /\ UNCHANGED io

\* What disconnect returns when removeConnection has returned err:
\* disconnect.go:36-38 drops the error, disconnect.go:55-57 returns it.
RemoveResult(path, err) ==
    IF path = "dead" THEN "AlreadyStopped"
    ELSE IF err THEN "RemoveFailed" ELSE "Ok"

\* disconnect.go:36 and :55 with connection.go:105-108: removeConnection
\* loads.
DisconnectRemoveLoad(c) ==
    /\ cli[c].pc = "dremove"
    /\ \E r \in loadConnections(file) :
         IF r.err
         THEN Return(c, "disconnect", cli[c].args, RemoveResult(obs[c].path, TRUE),
                     cli[c].conn.PID, obs[c])
         ELSE /\ cli' = [cli EXCEPT ![c].pc = "dremovesave", ![c].rmw = r.conns]
              /\ UNCHANGED <<obs, last>>
    /\ UNCHANGED <<file, wk, nextPid>>
    /\ UNCHANGED io

\* connection.go:110-117: the filter and the save.
DisconnectRemoveSave(c) ==
    /\ cli[c].pc = "dremovesave"
    /\ \E s \in saveConnections(file,
                  removeConnection(cli[c].rmw, cli[c].args.ServiceName,
                                   cli[c].args.Namespace)) :
         /\ file' = s.file
         /\ Return(c, "disconnect", cli[c].args, RemoveResult(obs[c].path, s.err),
                   cli[c].conn.PID, [obs[c] EXCEPT !.wrote = TRUE])
    /\ UNCHANGED <<wk, nextPid>>
    /\ UNCHANGED io

Disconnect(c) ==
    \/ \E p \in ParamSet : DisconnectFind(c, p)
    \/ DisconnectProbe(c)
    \/ DisconnectSignal(c)
    \/ DisconnectRemoveLoad(c)
    \/ DisconnectRemoveSave(c)

(* connect list: NewConnectListCmd *)

\* connect.go:160-163: loadConnections, outside the mutex.
ListLoad(c) ==
    /\ cli[c].pc = "idle"
    /\ \E r \in loadConnections(file) :
         IF r.err
         THEN Return(c, "list", NoArgs, "LoadFailed", 0, NoObs)
         ELSE /\ cli' = [cli EXCEPT ![c] =
                    [IdleCli EXCEPT !.pc = "check", !.cmd = "list",
                                    !.conns = r.conns, !.idx = 1]]
              /\ obs' = [obs EXCEPT ![c] = NoObs]
              /\ last' = NoLast
    /\ UNCHANGED <<file, wk, nextPid>>
    /\ UNCHANGED io

\* connect.go:167-171 and :177-178: the loop head and the liveness probe
\* of the next connection; after the last one the command returns.
ListCheck(c) ==
    /\ cli[c].pc = "check"
    /\ IF cli[c].idx > Len(cli[c].conns)
       THEN Return(c, "list", NoArgs, "Ok", 0, obs[c])
       ELSE /\ IF isProcessRunning(cli[c].conns[cli[c].idx].PID)
               THEN /\ cli' = [cli EXCEPT ![c].idx = @ + 1]
                    /\ UNCHANGED obs
               ELSE /\ cli' = [cli EXCEPT ![c].pc = "update"]
                    /\ obs' = [obs EXCEPT ![c].dead =
                                 @ \cup {cli[c].conns[cli[c].idx].PID}]
            /\ UNCHANGED last
    /\ UNCHANGED <<file, wk, nextPid>>
    /\ UNCHANGED io

\* connect.go:173 with connection.go:125-137: updateConnectionStatus loads
\* and looks for the first match; its error is dropped.
ListUpdateLoad(c) ==
    /\ cli[c].pc = "update"
    /\ LET conn == cli[c].conns[cli[c].idx]
       IN  \E r \in loadConnections(file) :
             IF r.err \/ FirstMatch(r.conns, conn.ServiceName, conn.Namespace) = 0
             THEN cli' = [cli EXCEPT ![c].pc = "check", ![c].idx = @ + 1]
             ELSE cli' = [cli EXCEPT ![c].pc = "updatesave", ![c].rmw = r.conns]
    /\ UNCHANGED <<file, wk, nextPid, obs, last>>
    /\ UNCHANGED io

\* connection.go:130-134: the status of the first match is set, and the
\* whole sequence saved.
ListUpdateSave(c) ==
    /\ cli[c].pc = "updatesave"
    /\ LET conn == cli[c].conns[cli[c].idx]
       IN  \E s \in saveConnections(file,
                      updateConnectionStatus(cli[c].rmw, conn.ServiceName,
                                             conn.Namespace, "stopped")) :
             file' = s.file
    /\ cli' = [cli EXCEPT ![c].pc = "check", ![c].idx = @ + 1, ![c].rmw = <<>>]
    /\ obs' = [obs EXCEPT ![c].wrote = TRUE]
    /\ UNCHANGED <<wk, nextPid, last>>
    /\ UNCHANGED io

List(c) ==
    \/ ListLoad(c)
    \/ ListCheck(c)
    \/ ListUpdateLoad(c)
    \/ ListUpdateSave(c)

----------------------------------------------------------------------------
(* The daemon process: runPortForwardDaemon.                               *)

\* runPortForwardDaemon of process p returns: res is "StartFailed" or
\* "TunnelError" (an error) or "Signalled" (nil); saved tells whether its
\* registry write succeeded.
DaemonReturn(p, res, saved) ==
    /\ wk' = [wk EXCEPT ![p] = ExitedWorker]
    /\ last' = [cmd |-> "daemon",
                args |-> [NoArgs EXCEPT !.ServiceName = wk[p].name,
                                        !.Namespace = wk[p].ns],
                res |-> res, pid |-> p,
                obs |-> [NoObs EXCEPT !.saved = saved]]

\* The exit status of the process: main exits with status 1 when the
\* command returns an error.
ExitStatus(res) == IF res = "Signalled" THEN 0 ELSE 1

\* part_002:36-43: readyChan is closed; the daemon installs its signal
\* handler and waits in the second select.
DaemonReady(p) ==
    /\ wk[p].st = "starting"
    /\ wk' = [wk EXCEPT ![p].st = "running"]
    /\ last' = NoLast
    /\ UNCHANGED <<file, nextPid, cli, obs>>
    /\ UNCHANGED io

\* DaemonStartError that marks the connection stopped as the error branch
\* of the running daemon does.
DaemonStartErrorMarksStopped(p) ==
    /\ wk[p].st = "starting"
    /\ DaemonReturn(p, "StartFailed", FALSE)
    /\ file' = IF file.st = "json" /\ FirstMatch(file.conns, wk[p].name, wk[p].ns) # 0
               THEN FileOf(updateConnectionStatus(file.conns, wk[p].name, wk[p].ns,
                                                  "stopped"))
               ELSE file
    /\ UNCHANGED <<nextPid, cli, obs>>
    /\ UNCHANGED io

\* The first select without its time.After case, on a port-forward that
\* reports nothing: no error arrives and the daemon does not return.
DaemonStartErrorNoTimer(p) ==
    /\ wk[p].st = "starting"
    /\ FALSE
    /\ DaemonReturn(p, "StartFailed", FALSE)
    /\ UNCHANGED <<file, nextPid, cli, obs>>
    /\ UNCHANGED io

\* part_002:59-62: the port-forward reports an error before it is ready,
\* or neither arrives within 10 seconds; the daemon returns the error.
DaemonStartError(p) ==
    /\ wk[p].st = "starting"
    /\ DaemonReturn(p, "StartFailed", FALSE)
    /\ UNCHANGED <<file, nextPid, cli, obs>>
    /\ UNCHANGED io

\* part_002:47-50 with connection.go:125-137: an error arrives on errChan
\* while running; updateConnectionStatus loads.  With no load or no match
\* it returns an error that is dropped, and the daemon returns err.
DaemonError(p) ==
    /\ wk[p].st = "running"
    /\ \E r \in loadConnections(file) :
         IF r.err \/ FirstMatch(r.conns, wk[p].name, wk[p].ns) = 0
         THEN DaemonReturn(p, "TunnelError", FALSE)
         ELSE /\ wk' = [wk EXCEPT ![p].st = "updating", ![p].rmw = r.conns]
              /\ last' = NoLast
    /\ UNCHANGED <<file, nextPid, cli, obs>>
    /\ UNCHANGED io

\* connection.go:130-134, then part_002:51: the save, and the daemon
\* returns err.
DaemonUpdateSave(p) ==
    /\ wk[p].st = "updating"
    /\ \E s \in saveConnections(file,
                  updateConnectionStatus(wk[p].rmw, wk[p].name, wk[p].ns, "stopped")) :
         /\ file' = s.file
         /\ DaemonReturn(p, "TunnelError", ~s.err)
    /\ UNCHANGED <<nextPid, cli, obs>>
    /\ UNCHANGED io

\* part_002:53-56 with connection.go:105-108: a signal arrives on sigChan
\* while running; stopChan is closed and removeConnection loads.
DaemonSignal(p) ==
    /\ wk[p].st \in {"running", "stalled"}
    /\ wk[p].sig
    /\ \E r \in loadConnections(file) :
         IF r.err
         THEN DaemonReturn(p, "Signalled", FALSE)
         ELSE /\ wk' = [wk EXCEPT ![p].st = "removing", ![p].rmw = r.conns]
              /\ last' = NoLast
    /\ UNCHANGED <<file, nextPid, cli, obs>>
    /\ UNCHANGED io

\* connection.go:110-117, then part_002:57: the filter and the save, and
\* the daemon returns nil.
DaemonRemoveSave(p) ==
    /\ wk[p].st = "removing"
    /\ \E s \in saveConnections(file, removeConnection(wk[p].rmw, wk[p].name, wk[p].ns)) :
         /\ file' = s.file
         /\ DaemonReturn(p, "Signalled", ~s.err)
    /\ UNCHANGED <<nextPid, cli, obs>>
    /\ UNCHANGED io

\* The process dies on its own: it crashes or is killed from outside.
Crash(p) ==
    /\ wk[p].st \in Alive
    /\ wk' = Kill(wk, p)
    /\ last' = NoLast
    /\ UNCHANGED <<file, nextPid, cli, obs>>
    /\ UNCHANGED io

\* What the daemon does next by itself once a signal is queued or a
\* registry operation is under way.
DaemonStep(p) ==
    \/ DaemonSignal(p)
    \/ DaemonUpdateSave(p)
    \/ DaemonRemoveSave(p)

Daemon(p) ==
    \/ DaemonReady(p)
    \/ DaemonStartError(p)
    \/ DaemonError(p)
    \/ DaemonStep(p)
    \/ Crash(p)

----------------------------------------------------------------------------

Next ==
    \/ \E c \in Clients : Connect(c) \/ Foreground(c) \/ Disconnect(c) \/ List(c)
    \/ \E p \in Pids : Daemon(p)

Spec == Init /\ [][Next]_vars

\* The behaviours in which no read and no write of the file fails.
SoundInit == Init /\ io = "sound"

SoundSpec == SoundInit /\ [][Next]_vars

\* The OS schedules every daemon: a daemon that can take its next step
\* takes it.
FairSpec == Spec /\ \A p \in Pids : WF_vars(DaemonStep(p))

\* The timer of the first select: 10 seconds after the daemon has begun to
\* wait, time.After delivers, so a daemon that still waits returns.
StartFairSpec == Spec /\ \A p \in Pids : WF_vars(DaemonStartError(p))

\* A process of another user: it is none of the daemons, and a signal sent
\* to it fails with EPERM.
ForeignWorker ==
    [st |-> "foreign", name |-> "", ns |-> "", sig |-> FALSE, rmw |-> <<>>]

\* The operating system gives the PID of a daemon that has exited to a
\* process of another user.
Reuse(p) ==
    /\ wk[p].st = "exited"
    /\ wk' = [wk EXCEPT ![p] = ForeignWorker]
    /\ last' = NoLast
    /\ UNCHANGED <<file, nextPid, cli, obs>>
    /\ UNCHANGED io

ReuseNext ==
    \/ Next
    \/ \E p \in Pids : Reuse(p)

\* The program on a machine that uses PIDs again.
ReuseSpec == Init /\ [][ReuseNext]_vars

\* part_002:27-31 and :69-94: pf.ForwardPorts() returns nil while the
\* daemon waits in its second select; the goroutine sends on errChan only
\* an error that is not nil, so here it sends nothing and ends.
DaemonTunnelEnds(p) ==
    /\ wk[p].st = "running"
    /\ wk' = [wk EXCEPT ![p].st = "stalled"]
    /\ last' = NoLast
    /\ UNCHANGED <<file, nextPid, cli, obs>>
    /\ UNCHANGED io

StallNext ==
    \/ Next
    \/ \E p \in Pids : DaemonTunnelEnds(p)

\* The program with port-forwards that end without an error, every daemon
\* scheduled as in FairSpec.
StallFairSpec ==
    Init /\ [][StallNext]_vars /\ \A p \in Pids : WF_vars(DaemonStep(p))

\* Two connect invocations at once: two CLI processes, each its own
\* operating-system process with its own connectionsMutex, on one registry
\* file, and the daemons they start.  Each process runs connect commands
\* one after another.
Racers == {"cli", "cli2"}

RaceInit ==
    /\ file = [st |-> "missing", conns |-> <<>>]
    /\ wk = [p \in Pids |-> NoWorker]
    /\ nextPid = 1
    /\ cli = [c \in Racers |-> IdleCli]
    /\ obs = [c \in Racers |-> NoObs]
    /\ last = NoLast
    /\ io \in {"sound", "faulty"}

\* The daemon where no process runs disconnect: no SIGTERM or SIGINT is
\* sent to it, so the signal branch of its select is never taken.
RaceDaemon(p) ==
    \/ DaemonReady(p)
    \/ DaemonStartError(p)
    \/ DaemonError(p)
    \/ DaemonUpdateSave(p)
    \/ Crash(p)

RaceNext ==
    \/ \E c \in Racers : Connect(c) \/ Foreground(c)
    \/ \E p \in Pids : RaceDaemon(p)

RaceSpec == RaceInit /\ [][RaceNext]_vars

----------------------------------------------------------------------------
(* The registry functions called by several tasks (goroutines) of one      *)
(* process: each takes connectionsMutex before it loads and releases it    *)
(* when it returns.                                                        *)

Tasks == {"t1", "t2"}

\* The registry functions.
Ops == {"add", "remove", "update", "find"}

\* The most records addConnection is called on.
MaxRecords == 2

\* connectionsMutex is held by the task that is inside a function: it has
\* locked and not yet returned.
Holds(t) == cli[t].pc \in {"locked", "loaded"}

\* A task calls addConnection, removeConnection, updateConnectionStatus or
\* findConnection and arrives at connectionsMutex.Lock().
Call(t, op, p, pid) ==
    /\ cli[t].pc = "idle"
    /\ op = "add" => Len(file.conns) + Cardinality({u \in Tasks : cli[u].cmd = "add"}) < MaxRecords
    /\ cli' = [cli EXCEPT ![t] =
                 [IdleCli EXCEPT !.pc = "waiting", !.cmd = op, !.args = p, !.pid = pid]]
    /\ last' = NoLast
    /\ UNCHANGED <<file, wk, nextPid, obs>>
    /\ UNCHANGED io

\* connectionsMutex.Lock() without the mutex: it never waits.
LockFree(t) ==
    /\ cli[t].pc = "waiting"
    /\ cli' = [cli EXCEPT ![t].pc = "locked"]
    /\ UNCHANGED <<file, wk, nextPid, obs, last>>
    /\ UNCHANGED io

\* connection.go:88, :103, :123, :142: connectionsMutex.Lock() returns once
\* no other task holds the mutex.
Lock(t) ==
    /\ cli[t].pc = "waiting"
    /\ \A u \in Tasks \ {t} : ~Holds(u)
    /\ cli' = [cli EXCEPT ![t].pc = "locked"]
    /\ UNCHANGED <<file, wk, nextPid, obs, last>>
    /\ UNCHANGED io

\* connection.go:91-94, :105-108, :125-128, :145-157: loadConnections under
\* the mutex.  A failed load returns the error; findConnection returns what
\* it found, and updateConnectionStatus returns an error when nothing
\* matches; the deferred Unlock runs at every return.
TaskLoad(t) ==
    /\ cli[t].pc = "locked"
    /\ \E r \in loadConnections(file) :
         LET name == cli[t].args.ServiceName
             ns == cli[t].args.Namespace
         IN  IF r.err
             THEN Return(t, cli[t].cmd, cli[t].args, "LoadFailed", 0, NoObs)
             ELSE IF cli[t].cmd \in {"find", "update"} /\ FirstMatch(r.conns, name, ns) = 0
             THEN Return(t, cli[t].cmd, cli[t].args, "NotFound", 0, NoObs)
             ELSE IF cli[t].cmd = "find"
             THEN Return(t, "find", cli[t].args, "Ok",
                         findConnection(r.conns, name, ns).PID, NoObs)
             ELSE /\ cli' = [cli EXCEPT ![t].pc = "loaded", ![t].rmw = r.conns]
                  /\ UNCHANGED <<obs, last>>
    /\ UNCHANGED <<file, wk, nextPid>>
    /\ UNCHANGED io

\* What the function of task t makes of the connections it has loaded.
Modified(t) ==
    LET name == cli[t].args.ServiceName
        ns == cli[t].args.Namespace
    IN  CASE cli[t].cmd = "add" ->
               addConnection(cli[t].rmw, ConnectionInfo(cli[t].pid, cli[t].args, "active"))
          [] cli[t].cmd = "remove" -> removeConnection(cli[t].rmw, name, ns)
          [] cli[t].cmd = "update" ->
               updateConnectionStatus(cli[t].rmw, name, ns, "stopped")

\* connection.go:96-97, :110-117, :130-134: saveConnections under the
\* mutex, then the return and the deferred Unlock.
TaskSave(t) ==
    /\ cli[t].pc = "loaded"
    /\ \E s \in saveConnections(file, Modified(t)) :
         /\ file' = s.file
         /\ Return(t, cli[t].cmd, cli[t].args,
                   IF s.err THEN "SaveFailed" ELSE "Ok", cli[t].pid,
                   [NoObs EXCEPT !.wrote = TRUE, !.saved = ~s.err])
    /\ UNCHANGED <<wk, nextPid>>
    /\ UNCHANGED io

TaskInit ==
    /\ file = [st |-> "missing", conns |-> <<>>]
    /\ wk = [p \in Pids |-> NoWorker]
    /\ nextPid = 1
    /\ cli = [t \in Tasks |-> IdleCli]
    /\ obs = [t \in Tasks |-> NoObs]
    /\ last = NoLast
    /\ io \in {"sound", "faulty"}

TaskNext ==
    \E t \in Tasks :
        \/ \E op \in Ops, p \in ParamSet, pid \in Pids : Call(t, op, p, pid)
        \/ Lock(t)
        \/ TaskLoad(t)
        \/ TaskSave(t)

TaskSpec == TaskInit /\ [][TaskNext]_vars

----------------------------------------------------------------------------
(* The daemon entry point: `daemon portforward` with its flags, from the   *)
(* command line to the call of runPortForwardDaemon.                       *)

EntryProcs == {"daemon"}

\* part_001:62-67: the flags of the command.
FlagNames == {"kubeconfig", "namespace", "service", "pod", "localport", "remoteport"}

\* part_001:62-67: the default of each flag.
FlagDefault(f) == IF f = "namespace" THEN "default" ELSE ""

\* The values a flag is given on a command line: none at all (<<>>), the
\* empty string, or a value; for the remote port also one that is not a
\* number.
FlagInputs(f) ==
    CASE f = "kubeconfig" -> {<<>>, <<"">>, <<"kc">>}
      [] f = "namespace"  -> {<<>>, <<"">>, <<"prod">>}
      [] f = "service"    -> {<<>>, <<"">>, <<"db">>}
      [] f = "pod"        -> {<<>>, <<"">>, <<"db-0">>}
      [] f = "localport"  -> {<<>>, <<"">>, <<"5432">>}
      [] f = "remoteport" -> {<<>>, <<"">>, <<"5432">>, <<"http">>}

\* cobra's flag parsing (StringVar): a flag keeps its default unless the
\* command line gives it, and then it holds what was given.
ParseFlags(argv) ==
    [f \in FlagNames |-> IF argv[f] = <<>> THEN FlagDefault(f) ELSE argv[f][1]]

\* part_001:40: the test before anything else runs.
MissingRequired(flags) ==
    \/ flags["kubeconfig"] = ""
    \/ flags["service"] = ""
    \/ flags["pod"] = ""
    \/ flags["localport"] = ""
    \/ flags["remoteport"] = ""

\* part_001:52: strconv.ParseInt(remotePort, 10, 32) on the inputs above.
ParseInt(str) ==
    IF str = "5432" THEN [err |-> FALSE, n |-> 5432] ELSE [err |-> TRUE, n |-> 0]

NoFlags == [f \in FlagNames |-> ""]

EntryIdle == [pc |-> "exec", argv |-> [f \in FlagNames |-> <<>>], flags |-> NoFlags]

\* RunE returns an error: the process exits.
EntryFail(d, res) ==
    /\ cli' = [cli EXCEPT ![d].pc = "exited"]
    /\ last' = [NoLast EXCEPT !.cmd = "daemon", !.res = res]

\* The process is started with a command line, and cobra parses the flags
\* (part_001:62-67).
EntryExec(d) ==
    /\ cli[d].pc = "exec"
    /\ \E argv \in [FlagNames -> UNION {FlagInputs(f) : f \in FlagNames}] :
         /\ \A f \in FlagNames : argv[f] \in FlagInputs(f)
         /\ cli' = [cli EXCEPT ![d] =
                      [pc |-> "check", argv |-> argv, flags |-> ParseFlags(argv)]]
    /\ UNCHANGED <<file, wk, nextPid, obs, last>>
    /\ UNCHANGED io

\* part_001:40-43: the required-flags test.
EntryCheck(d) ==
    /\ cli[d].pc = "check"
    /\ IF MissingRequired(cli[d].flags)
       THEN EntryFail(d, "ArgError")
       ELSE /\ cli' = [cli EXCEPT ![d].pc = "config"]
            /\ UNCHANGED last
    /\ UNCHANGED <<file, wk, nextPid, obs>>
    /\ UNCHANGED io

\* part_001:46-49: clientcmd.BuildConfigFromFlags reads the kubeconfig; it
\* fails or gives a config.
EntryBuildConfig(d) ==
    /\ cli[d].pc = "config"
    /\ \/ EntryFail(d, "ConfigError")
       \/ /\ cli' = [cli EXCEPT ![d].pc = "port"]
          /\ UNCHANGED last
    /\ UNCHANGED <<file, wk, nextPid, obs>>
    /\ UNCHANGED io

\* part_001:52-55: the remote port is parsed.
EntryParsePort(d) ==
    /\ cli[d].pc = "port"
    /\ IF ParseInt(cli[d].flags["remoteport"]).err
       THEN EntryFail(d, "PortError")
       ELSE /\ cli' = [cli EXCEPT ![d].pc = "run"]
            /\ UNCHANGED last
    /\ UNCHANGED <<file, wk, nextPid, obs>>
    /\ UNCHANGED io

\* part_001:58: runPortForwardDaemon is called with the namespace and the
\* service of the flags: the tunnel logic begins, the daemon is starting.
EntryRun(d) ==
    /\ cli[d].pc = "run"
    /\ nextPid <= MaxPid
    /\ wk' = [wk EXCEPT ![nextPid] =
                [NoWorker EXCEPT !.st = "starting",
                                 !.name = cli[d].flags["service"],
                                 !.ns = cli[d].flags["namespace"]]]
    /\ nextPid' = nextPid + 1
    /\ cli' = [cli EXCEPT ![d].pc = "tunnel"]
    /\ UNCHANGED <<file, obs, last>>
    /\ UNCHANGED io

EntryInit ==
    /\ file = [st |-> "missing", conns |-> <<>>]
    /\ wk = [p \in Pids |-> NoWorker]
    /\ nextPid = 1
    /\ cli = [d \in EntryProcs |-> EntryIdle]
    /\ obs = [d \in EntryProcs |-> NoObs]
    /\ last = NoLast
    /\ io = "sound"

EntryNext ==
    \E d \in EntryProcs :
        \/ EntryExec(d)
        \/ EntryCheck(d)
        \/ EntryBuildConfig(d)
        \/ EntryParsePort(d)
        \/ EntryRun(d)

EntrySpec == EntryInit /\ [][EntryNext]_vars

----------------------------------------------------------------------------
(* Properties.                                                             *)

Active(conn) == conn.Status = "active"

\* The records of the file with that name and namespace.
Records(f, serviceName, namespace) ==
    {i \in 1..Len(f.conns) : Matches(f.conns[i], serviceName, namespace)}

\* The command c has just returned from is cmd.
Ended(cmd) == last.cmd = cmd

\* C1: the registry never holds two records with status active and the
\* same name and namespace.
C1_UniqueActive ==
    \A i, j \in 1..Len(file.conns) :
        (/\ i < j
         /\ Active(file.conns[i])
         /\ Active(file.conns[j]))
        => ~Matches(file.conns[j], file.conns[i].ServiceName, file.conns[i].Namespace)

\* C2: a connect that directly follows a successful connect of the same
\* name and namespace fails with AlreadyConnected at its first step (it
\* never goes on to spawn), and the registry then holds exactly one record
\* of that name and namespace.
C2_SecondConnectRefused ==
    /\ \A c \in Clients : ~(cli[c].cmd = "connect" /\ obs[c].again)
    /\ (Ended("connect") /\ last.obs.again)
       => /\ last.res = "AlreadyConnected"
          /\ last.pid = 0
          /\ Cardinality(Records(file, last.args.ServiceName, last.args.Namespace)) = 1

\* C3: connect fails with AlreadyConnected only when the registry holds an
\* active record of the name and namespace whose PID is alive.
C3_RefusedOnlyIfAlive ==
    (Ended("connect") /\ last.res = "AlreadyConnected")
    => \E i \in Records(file, last.args.ServiceName, last.args.Namespace) :
          Active(file.conns[i]) /\ isProcessRunning(file.conns[i].PID)

\* C4: no active record is in the registry for a daemon that is still
\* starting (that has not established its tunnel).
C4_ActiveOnlyAfterReady ==
    \A i \in 1..Len(file.conns) :
        (Active(file.conns[i]) /\ file.conns[i].PID \in Pids)
        => wk[file.conns[i].PID].st # "starting"

\* C5: a connect that returns SpawnFailed or DaemonStartFailed has not
\* written the registry, and the registry holds no record of the process
\* it started.
C5_FailedStartWritesNothing ==
    (Ended("connect") /\ last.res \in {"SpawnFailed", "DaemonStartFailed"})
    => /\ ~last.obs.wrote
       /\ \A i \in 1..Len(file.conns) : file.conns[i].PID # last.pid

C5_Witness ==
    /\ Ended("connect")
    /\ last.res = "DaemonStartFailed"
    /\ last.pid \in Pids
    /\ ~isProcessRunning(last.pid)
    /\ Len(file.conns) > 0

\* The records in the file as loadConnections gives them when it succeeds.
Contents(f) == IF f.st = "json" THEN f.conns ELSE <<>>

\* The step in which the connect of c returns success.
ConnectOk(c) == cli[c].pc = "addsave" /\ last'.res = "Ok"

\* C6: a connect on a name and namespace without a record that
\* succeeds leaves the registry as it was with one record appended: status
\* active, the arguments of the call, the PID of the daemon it started; and
\* that daemon is alive when connect returns.
C6_ConnectAddsLiveRecord ==
    [][\A c \in Clients :
         (ConnectOk(c) /\ obs[c].fresh)
         => /\ file' = FileOf(Append(Contents(file),
                                     ConnectionInfo(cli[c].pid, cli[c].args, "active")))
            /\ cli[c].pid \in Pids
            /\ wk'[cli[c].pid].st \in Alive]_vars

\* C7: when connect returns RegistryWriteFailed it has sent a kill to the
\* daemon it started, and that daemon is not running.
C7_WriteFailedKillsDaemon ==
    (Ended("connect") /\ last.res = "RegistryWriteFailed")
    => /\ last.pid \in Pids
       /\ last.pid \in last.obs.probed
       /\ ~isProcessRunning(last.pid)

C7_Witness ==
    /\ Ended("connect")
    /\ last.res = "RegistryWriteFailed"
    /\ last.obs.wrote
    /\ last.pid \in last.obs.sent
    /\ ~isProcessRunning(last.pid)

\* C8: a disconnect on a name and namespace that has no record, and so
\* also one that directly follows a successful disconnect of the same name
\* and namespace, returns NotFound at its first step, sends no signal and
\* does not write the file.
C8_DisconnectAbsentNotFound ==
    /\ \A c \in Clients :
         ~(cli[c].cmd = "disconnect" /\ (obs[c].fresh \/ obs[c].again))
    /\ (Ended("disconnect") /\ (last.obs.fresh \/ last.obs.again))
       => /\ last.res = "NotFound"
          /\ last.obs.sent = {}
          /\ ~last.obs.wrote

\* C9: when a disconnect that found the daemon of the record running
\* returns success, the registry holds no record of that name and
\* namespace, and the daemon eventually no longer exists.
C9_DisconnectStopsDaemon ==
    /\ []((Ended("disconnect") /\ last.res = "Ok")
          => /\ last.obs.path = "live"
             /\ Records(file, last.args.ServiceName, last.args.Namespace) = {})
    /\ \A p \in Pids :
         (Ended("disconnect") /\ last.res = "Ok" /\ last.pid = p)
         ~> (wk[p].st = "exited")

C9_Witness ==
    /\ Ended("disconnect")
    /\ last.res = "Ok"
    /\ last.pid \in last.obs.sent
    /\ wk[last.pid].st = "running"
    /\ wk[last.pid].sig
    /\ Len(file.conns) > 0

\* C10: a disconnect that finds a record whose PID is not alive sends no
\* signal, returns success, and the registry then holds no record of that
\* name and namespace.
C10_DeadRecordRemoved ==
    (Ended("disconnect") /\ last.obs.path = "dead")
    => /\ last.obs.sent = {}
       /\ last.res = "AlreadyStopped"
       /\ Records(file, last.args.ServiceName, last.args.Namespace) = {}

\* C11: when a list pass has completed, every record of the registry whose
\* PID failed the liveness check of that pass has status stopped.
C11_ListMarksDeadStopped ==
    (Ended("list") /\ last.res = "Ok")
    => \A i \in 1..Len(file.conns) :
          file.conns[i].PID \in last.obs.dead => file.conns[i].Status = "stopped"

\* The sequences that the processes which have loaded the file and not yet
\* saved it are about to save.
Saving ==
    {addConnection(cli[c].rmw, ConnectionInfo(cli[c].pid, cli[c].args, "active")) :
        c \in {d \in DOMAIN cli : cli[d].pc = "addsave"}}
    \cup {removeConnection(cli[c].rmw, cli[c].args.ServiceName, cli[c].args.Namespace) :
        c \in {d \in DOMAIN cli : cli[d].pc = "dremovesave"}}
    \cup {updateConnectionStatus(cli[c].rmw, cli[c].conns[cli[c].idx].ServiceName,
                                 cli[c].conns[cli[c].idx].Namespace, "stopped") :
        c \in {d \in DOMAIN cli : cli[d].pc = "updatesave"}}
    \cup {updateConnectionStatus(wk[p].rmw, wk[p].name, wk[p].ns, "stopped") :
        p \in {q \in Pids : wk[q].st = "updating"}}
    \cup {removeConnection(wk[p].rmw, wk[p].name, wk[p].ns) :
        p \in {q \in Pids : wk[q].st = "removing"}}

\* C12: every step leaves the registry file as it was or holding the
\* complete sequence that the step saved, whether the save succeeds or
\* fails; the file is never empty or partial.
C12_SaveAllOrNothing ==
    [][\/ file' = file
       \/ \E conns \in Saving : file' = FileOf(conns)]_vars

\* C13: as long as the registry file does not exist, loadConnections
\* returns the empty sequence and no error, and list does not fail to load.
C13_LoadMissingIsEmpty ==
    file.st = "missing"
    => /\ \A r \in loadConnections(file) : ~r.err /\ r.conns = <<>>
       /\ ~(Ended("list") /\ last.res = "LoadFailed")

\* C14: for the sequence the file holds and for every sequence a process
\* is about to save, the empty one included, a saveConnections that
\* succeeds followed by a loadConnections that succeeds returns the same
\* records field for field.
C14_SaveLoadRoundTrip ==
    \A conns \in Saving \cup {Contents(file)} :
        \A s \in saveConnections(file, conns) :
            ~s.err => \A r \in loadConnections(s.file) : ~r.err => r.conns = conns

C14_Witness ==
    \E c \in Clients :
        /\ cli[c].pc = "dremovesave"
        /\ Len(cli[c].rmw) = 1
        /\ removeConnection(cli[c].rmw, cli[c].args.ServiceName,
                            cli[c].args.Namespace) = <<>>
        /\ file = FileOf(cli[c].rmw)
        /\ cli[c].rmw[1].Kubeconfig # ""

\* C15: a daemon that returns while it is starting (the tunnel reported a
\* failure or the timeout expired) returns the failed-to-start error, has
\* exited and leaves the registry file as it is.
C15_StartFailureTouchesNothing ==
    [][\A p \in Pids :
         (wk[p].st = "starting" /\ last'.cmd = "daemon" /\ last'.pid = p)
         => /\ last'.res = "StartFailed"
            /\ wk'[p].st = "exited"
            /\ file' = file]_vars

C15_Witness ==
    /\ last.cmd = "daemon"
    /\ last.res = "StartFailed"
    /\ wk[last.pid].st = "exited"
    /\ \E i \in 1..Len(file.conns) :
          file.conns[i].PID = last.pid /\ Active(file.conns[i])

\* C16: a daemon that returns because of a tunnel error while running
\* exits with a status that is not zero, whether its registry write
\* succeeded or not; when the write succeeded, the record of the daemon
\* (the one with its PID) has status stopped; and a daemon that has left
\* running never starts or runs the tunnel again.
C16_TunnelErrorMarksStopped ==
    /\ [][\A p \in Pids :
            (wk[p].st \in {"running", "updating"} /\ last'.cmd = "daemon"
             /\ last'.pid = p /\ last'.res = "TunnelError")
            => /\ wk'[p].st = "exited"
               /\ ExitStatus(last'.res) # 0
               /\ last'.obs.saved
                  => \A i \in 1..Len(file'.conns) :
                        file'.conns[i].PID = p => file'.conns[i].Status = "stopped"]_vars
    /\ [][\A p \in Pids :
            wk[p].st \in {"updating", "exited"}
            => wk'[p].st \in {"updating", "exited"}]_vars

\* C17: a daemon that returns because of a signal while running exits
\* with status zero, and the registry then holds no record of its name and
\* namespace.
C17_SignalRemovesRecord ==
    [][\A p \in Pids :
         (wk[p].st \in {"running", "removing"} /\ last'.cmd = "daemon"
          /\ last'.pid = p /\ last'.res = "Signalled")
         => /\ wk'[p].st = "exited"
            /\ ExitStatus(last'.res) = 0
            /\ Records(file', wk[p].name, wk[p].ns) = {}]_vars

\* C18: the foreground process leaves running once the tunnel has reported
\* an error to it, as the daemon does, and no step of the foreground
\* process changes the registry file.
C18_ForegroundSameMachine ==
    /\ \A c \in Clients : (cli[c].pc = "fgerror") ~> (cli[c].pc # "fgerror")
    /\ [][\A c \in Clients :
            (cli[c].cmd = "foreground" /\ cli'[c] # cli[c]) => file' = file]_vars

\* Process c is between the load and the save of addConnection,
\* removeConnection or updateConnectionStatus.
CliInCycle(c) == cli[c].pc \in {"addsave", "dremovesave", "updatesave"}

\* Daemon p is between the load and the save of updateConnectionStatus or
\* removeConnection.
DaemonInCycle(p) == wk[p].st \in {"updating", "removing"}

\* The step is one in which process c reads or writes the registry file.
CliTouches(c) ==
    \/ \E p \in ParamSet : ConnectFind(c, p) \/ DisconnectFind(c, p)
    \/ ConnectAddLoad(c) \/ ConnectAddSave(c)
    \/ DisconnectRemoveLoad(c) \/ DisconnectRemoveSave(c)
    \/ ListLoad(c) \/ ListUpdateLoad(c) \/ ListUpdateSave(c)

\* The step is one in which daemon p reads or writes the registry file.
DaemonTouches(p) ==
    \/ DaemonError(p) \/ DaemonSignal(p)
    \/ DaemonUpdateSave(p) \/ DaemonRemoveSave(p)

\* C19: while a process is between the load and the save of a
\* read-modify-write cycle, no other process reads or writes the registry
\* file.
C19_CycleOwnsFile ==
    [][/\ \A c \in DOMAIN cli :
            CliInCycle(c)
            => /\ \A p \in Pids : ~DaemonTouches(p)
               /\ \A d \in DOMAIN cli \ {c} : ~CliTouches(d)
       /\ \A p \in Pids :
            DaemonInCycle(p)
            => /\ \A q \in Pids \ {p} : ~DaemonTouches(q)
               /\ \A c \in DOMAIN cli : ~CliTouches(c)]_vars

\* Process c has passed the check for an existing connection and is on its
\* way to its registry write.
PastCheck(c) == cli[c].cmd = "connect" /\ cli[c].pc \in {"spawn", "probe", "add", "addsave"}

\* C20: a connect that has passed the not-already-connected check never
\* goes back on it, whatever another connect for the same key has written
\* meanwhile: it does not return AlreadyConnected, and when it returns
\* success its save has put its active record after the records it loaded.
C20_ConcurrentConnectsBothWrite ==
    [][\A c \in Racers :
         (PastCheck(c) /\ cli'[c].pc = "idle")
         => /\ last'.res # "AlreadyConnected"
            /\ (cli[c].pc = "addsave" /\ last'.res = "Ok")
               => file' = FileOf(addConnection(cli[c].rmw,
                                   ConnectionInfo(cli[c].pid, cli[c].args, "active")))]_vars

\* Both connects found no record of the key, both spawned a daemon that is
\* alive, and the file holds an active record of each.
C20_Witness ==
    /\ Ended("connect") /\ last.res = "Ok" /\ last.obs.fresh
    /\ \E i, j \in 1..Len(file.conns) :
         /\ i < j
         /\ file.conns[j].PID = last.pid
         /\ file.conns[i].PID # last.pid
         /\ Matches(file.conns[i], last.args.ServiceName, last.args.Namespace)
         /\ Matches(file.conns[j], last.args.ServiceName, last.args.Namespace)
         /\ Active(file.conns[i]) /\ Active(file.conns[j])
         /\ isProcessRunning(file.conns[i].PID)
         /\ isProcessRunning(file.conns[j].PID)

\* C21: when a daemon that received a termination signal has removed its
\* registry entry, every record it loaded whose PID is not its own is
\* still in the file, unaltered.
C21_CleanupOwnRecordOnly ==
    [][\A p \in Pids :
         (wk[p].st = "removing" /\ last'.cmd = "daemon" /\ last'.pid = p
          /\ last'.obs.saved)
         => \A i \in 1..Len(wk[p].rmw) :
               wk[p].rmw[i].PID # p
               => \E j \in 1..Len(file'.conns) : file'.conns[j] = wk[p].rmw[i]]_vars

\* C22: a list pass never sets to stopped a record whose PID is alive: the
\* records its status update changes are records of processes that do not
\* run.
C22_ListStopsOnlyDead ==
    [][\A c \in Clients :
         (cli[c].pc = "updatesave" /\ cli'[c].pc # "updatesave"
          /\ file'.st = "json" /\ Len(file'.conns) = Len(cli[c].rmw))
         => \A i \in 1..Len(cli[c].rmw) :
               (file'.conns[i].Status = "stopped" /\ cli[c].rmw[i].Status # "stopped")
               => ~isProcessRunning(cli[c].rmw[i].PID)]_vars

\* C24: the step in which disconnect signals a daemon it found running
\* sends SIGTERM and nothing more: the other daemons are untouched, and a
\* daemon that has installed its signal handler is still alive afterwards.
C24_KillOnlyIfSignalFails ==
    [][\A c \in Clients :
         (cli[c].pc = "dsignal" /\ cli'[c].pc = "dremove")
         => /\ \A p \in Pids \ {cli[c].conn.PID} : wk'[p] = wk[p]
            /\ wk[cli[c].conn.PID].st \in Alive \ {"starting"}
               => wk'[cli[c].conn.PID].st = wk[cli[c].conn.PID].st]_vars

\* Disconnect has returned success on the live path while the daemon it
\* signalled is still running, its signal not yet taken.
C24_Witness ==
    /\ Ended("disconnect") /\ last.res = "Ok" /\ last.obs.path = "live"
    /\ last.obs.sent = {last.pid}
    /\ isProcessRunning(last.pid)
    /\ wk[last.pid].sig
    /\ Records(file, last.args.ServiceName, last.args.Namespace) = {}

\* C25: disconnect never reports success, on the live path or on the
\* already-stopped path, unless removeConnection has saved the file.
C25_RemoveFailureReported ==
    (Ended("disconnect") /\ last.res \in {"Ok", "AlreadyStopped"})
    => last.obs.wrote /\ file.st = "json"

\* The record new is the record old, but for its status.
SameButStatus(old, new) == [new EXCEPT !.Status = old.Status] = old

\* The sequence new is the sequence old with the records of that name and
\* namespace taken out: the others are all there, in their order, as they
\* were.
FrameOfRemove(old, new, serviceName, namespace) ==
    LET keep == {i \in 1..Len(old) : ~Matches(old[i], serviceName, namespace)}
    IN  /\ Len(new) = Cardinality(keep)
        /\ \A i \in keep :
              new[Cardinality({k \in keep : k <= i})] = old[i]

\* The sequence new is the sequence old with the status of one record, the
\* first of that name and namespace, set; every other record is as it was.
FrameOfUpdate(old, new, serviceName, namespace) ==
    /\ Len(new) = Len(old)
    /\ \A i \in 1..Len(old) :
          /\ SameButStatus(old[i], new[i])
          /\ new[i] # old[i]
             => /\ Matches(old[i], serviceName, namespace)
                /\ \A j \in 1..(i - 1) : ~Matches(old[j], serviceName, namespace)

\* C26: a save of addConnection, removeConnection or updateConnectionStatus
\* that changes the file leaves every record it loaded and keeps with its
\* PID, name, namespace, ports, pod and kubeconfig, and with its status
\* unless it is the record updateConnectionStatus set; addConnection only
\* appends and removeConnection only takes records out.
C26_MutationsKeepRecords ==
    [][/\ \A c \in Clients :
            (CliInCycle(c) /\ cli'[c] # cli[c] /\ file' # file /\ file'.st = "json")
            => LET old == cli[c].rmw
                   new == file'.conns
               IN  CASE cli[c].pc = "addsave" ->
                          /\ Len(new) = Len(old) + 1
                          /\ \A i \in 1..Len(old) : new[i] = old[i]
                     [] cli[c].pc = "dremovesave" ->
                          FrameOfRemove(old, new, cli[c].args.ServiceName,
                                        cli[c].args.Namespace)
                     [] cli[c].pc = "updatesave" ->
                          FrameOfUpdate(old, new,
                                        cli[c].conns[cli[c].idx].ServiceName,
                                        cli[c].conns[cli[c].idx].Namespace)
       /\ \A p \in Pids :
            (DaemonInCycle(p) /\ wk'[p].st = "exited" /\ last'.cmd = "daemon"
             /\ file' # file /\ file'.st = "json")
            => IF wk[p].st = "removing"
               THEN FrameOfRemove(wk[p].rmw, file'.conns, wk[p].name, wk[p].ns)
               ELSE FrameOfUpdate(wk[p].rmw, file'.conns, wk[p].name, wk[p].ns)]_vars

\* A status update has just been saved over a file in which two records
\* have the name and namespace of the record it set.
C26_Witness ==
    /\ last.cmd = "daemon" /\ last.res = "TunnelError" /\ last.obs.saved
    /\ Cardinality(Records(file, last.args.ServiceName, last.args.Namespace)) = 2
    /\ \E i \in 1..Len(file.conns) : file.conns[i].Status = "active"

\* C28: on the records of the file, findConnection returns NotFound (the
\* nil connection) exactly when no record has the name and namespace, and
\* otherwise a record that has them and that no record having them
\* precedes in the file, whatever its status.
C28_FindReturnsFirstMatch ==
    \A p \in ParamSet :
        LET conns == Contents(file)
            found == findConnection(conns, p.ServiceName, p.Namespace)
            hits == {i \in 1..Len(conns) : Matches(conns[i], p.ServiceName, p.Namespace)}
        IN  /\ found = NoConn <=> hits = {}
            /\ hits # {}
               => \E i \in hits : /\ conns[i] = found
                                  /\ \A j \in hits : i <= j

\* Two records of one name and namespace, a stopped one before an active
\* one: findConnection returns the stopped one.
C28_Witness ==
    \E p \in ParamSet :
        /\ Cardinality(Records(file, p.ServiceName, p.Namespace)) = 2
        /\ findConnection(Contents(file), p.ServiceName, p.Namespace).Status = "stopped"
        /\ \E i \in Records(file, p.ServiceName, p.Namespace) :
              file.conns[i].Status = "active"

\* C23: at most one task of the process is inside addConnection,
\* removeConnection, updateConnectionStatus or findConnection, between its
\* lock and its return, and a task that saves has modified what the file
\* holds at that moment: no write of another task came after its load, so
\* the mutations take effect one after the other and none is lost.
C23_SectionsDoNotOverlap ==
    [][/\ Cardinality({t \in Tasks : Holds(t)'}) <= 1
       /\ \A t \in Tasks :
            (cli[t].pc = "loaded" /\ cli'[t].pc = "idle")
            => /\ cli[t].rmw = Contents(file)
               /\ last'.obs.saved => file' = FileOf(Modified(t))]_vars

\* One task has loaded a file that holds a record and is about to save its
\* mutation while the other task waits for the mutex with a mutation of
\* the same key.
C23_Witness ==
    \E t \in Tasks, u \in Tasks :
        /\ cli[t].pc = "loaded" /\ cli[u].pc = "waiting"
        /\ cli[u].cmd \in {"add", "remove", "update"}
        /\ cli[u].args = cli[t].args
        /\ Len(cli[t].rmw) = 1 /\ cli[t].rmw = file.conns

\* C29: a daemon that waits in its first select (starting) always leaves
\* it: the port-forward becomes ready, it reports an error, or the 10
\* second timer fires (or the process is ended from outside).
C29_StartingEnds ==
    \A p \in Pids : (wk[p].st = "starting") ~> (wk[p].st # "starting")

\* A daemon has left the first select with an error and a second daemon
\* waits in its own.
C29_Witness ==
    /\ last.cmd = "daemon" /\ last.res = "StartFailed"
    /\ wk[last.pid].st = "exited"
    /\ \E q \in Pids : wk[q].st = "starting"

\* C27: a PID is taken for dead only when the probe reports that no such
\* process exists: a list pass adds a PID to those it found dead, and
\* disconnect takes the already-stopped path, only on ESRCH, never when
\* the probe is denied (EPERM).
C27_DeniedProbeNotDead ==
    [][\A c \in Clients :
          /\ \A p \in obs'[c].dead \ obs[c].dead : Signal0(p) = "ESRCH"
          /\ (obs[c].path # "dead" /\ obs'[c].path = "dead")
             => Signal0(cli[c].conn.PID) = "ESRCH"]_vars

\* C30: a daemon in its second select whose port-forward has ended without
\* an error eventually exits.
C30_EndedTunnelExits ==
    \A p \in Pids : (wk[p].st = "stalled") ~> (wk[p].st = "exited")

\* The command line gives flag f a value that is not empty.
Given(argv, f) == argv[f] # <<>> /\ argv[f] # <<"">>

\* C31: the daemon entry point gets past its argument test, towards the
\* config, the port and the tunnel, only when its command line gives all
\* five of credential reference (kubeconfig), scope (namespace), target id
\* (pod), local port and remote port, none of them empty; otherwise it
\* has returned the argument error.
C31_FiveParametersRequired ==
    \A d \in EntryProcs :
        cli[d].pc \in {"config", "port", "run", "tunnel"}
        => \A f \in {"kubeconfig", "namespace", "pod", "localport", "remoteport"} :
              Given(cli[d].argv, f)

====
